---- MODULE Spec2Model ----
(***************************************************************************)
(* A model of openshift2nulecule/openshift.py: OpenshiftClient's           *)
(* export_project and the ExportedProject it builds (image inventory,      *)
(* pruning, annotation scrubbing, pull_images, push_images and             *)
(* update_artifacts_images).                                               *)
(*                                                                         *)
(* Image references are strings, modelled as sequences of one-character    *)
(* strings, so that host substitution, parsing and formatting are real     *)
(* computations on text.                                                   *)
(***************************************************************************)
EXTENDS Integers, Sequences, FiniteSets, TLC

VARIABLES
    pc,         \* "start" | "exported" | "failed": position of the caller
    input,      \* the cluster: per provider, the envelope its query returns
    artifacts,  \* ExportedProject.artifacts: provider -> sequence of artifacts
    images,     \* ExportedProject.images: the image inventory
    op,         \* the last public call and its arguments
    cmds,       \* the external commands (utils.run_cmd) issued by the last call
    hist,       \* names of the public calls made since construction
    failing     \* the environment: the docker subcommands that exit non-zero

vars == <<pc, input, artifacts, images, op, cmds, hist, failing>>

(***************************************************************************)
(* Bounds of the model.                                                    *)
(***************************************************************************)
\* most artifacts in the envelopes of one export (both providers together)
MaxArtifacts == 3
\* most workload artifacts in a project the image operations are run on
MaxWorkloads == 2
\* most public calls made on one ExportedProject
MaxOps == 3
\* most workload artifacts in a project whose docker commands may fail
MaxDockerWorkloads == 1
\* most public calls made on one ExportedProject whose docker commands may fail
MaxDockerOps == 3

(***************************************************************************)
(* Strings.                                                                *)
(***************************************************************************)
\* Python's None, as a value no text equals (text is made of single characters)
None == <<"None">>

\* str(None), as "{}".format renders it
NoneText == <<"N", "o", "n", "e">>

\* Python truthiness of an optional string
Truthy(s) == s /= None /\ s /= <<>>

\* the positions of character c in s
Positions(s, c) == {k \in 1..Len(s) : s[k] = c}

Min(S) == CHOOSE x \in S : \A y \in S : x <= y

Max(S) == CHOOSE x \in S : \A y \in S : x >= y

\* s.replace(c, "")
StripChar(s, c) == SelectSeq(s, LAMBDA x : x /= c)

(***************************************************************************)
(* utils: the helpers openshift.py calls.                                  *)
(***************************************************************************)
\* hosts of the cluster's internal registry
InternalHosts == {<<"i">>}

\* utils.replace_registry_host: the text before the first "/" is the registry
\* host; it is replaced by new_registry_host and the rest is kept
replace_registry_host(image, new_registry_host) ==
    LET slashes == Positions(image, "/")
    IN  IF slashes = {}
        THEN new_registry_host \o <<"/">> \o image
        ELSE new_registry_host \o SubSeq(image, Min(slashes), Len(image))

\* utils.parse_image_name: <<name, tag, digest>>; the digest follows "@", the
\* tag follows the last ":" of the last path segment; either may be None
parse_image_name(image) ==
    LET ats == Positions(image, "@")
        slashes == Positions(image, "/")
        lastSlash == IF slashes = {} THEN 0 ELSE Max(slashes)
        colons == {k \in Positions(image, ":") : k > lastSlash}
    IN  IF ats /= {}
        THEN <<SubSeq(image, 1, Min(ats) - 1), None,
               SubSeq(image, Min(ats) + 1, Len(image))>>
        ELSE IF colons /= {}
        THEN <<SubSeq(image, 1, Max(colons) - 1),
               SubSeq(image, Max(colons) + 1, Len(image)), None>>
        ELSE <<image, None, None>>

\* the internal-registry predicate get_image_info applies to a reference
is_internal(image) ==
    LET slashes == Positions(image, "/")
    IN  /\ slashes /= {}
        /\ SubSeq(image, 1, Min(slashes) - 1) \in InternalHosts

\* utils.get_image_info: one entry per container of a workload artifact
get_image_info(artifact) ==
    [k \in 1..Len(artifact.containers) |->
        [image |-> artifact.containers[k],
         original_image |-> artifact.containers[k],
         internal |-> is_internal(artifact.containers[k])]]

(***************************************************************************)
(* Artifacts: [kind, hasAnnotations, annotations, containers].             *)
(* annotations is metadata.annotations as a set of <<key, value>> pairs,   *)
(* hasAnnotations tells whether the key "annotations" is present;          *)
(* containers is spec.template.spec.containers[*].image.                   *)
(***************************************************************************)
\* constants.NULECULE_PROVIDERS, in iteration order
NULECULE_PROVIDERS == <<"kubernetes", "openshift">>

Providers == {NULECULE_PROVIDERS[k] : k \in 1..Len(NULECULE_PROVIDERS)}

WorkloadKinds == {"ReplicationController", "DeploymentConfig"}

DeploymentConfigAnnotation == "openshift.io/deployment-config.name"

\* dict.get(key, default) on an annotations map
AnnotationGet(artifact, key, default) ==
    IF \E kv \in artifact.annotations : kv[1] = key
    THEN (CHOOSE kv \in artifact.annotations : kv[1] = key)[2]
    ELSE default

\* list.remove(x): drops the first element equal to x
ListRemove(list, x) ==
    LET hits == {k \in 1..Len(list) : list[k] = x}
    IN  IF hits = {} THEN list
        ELSE SubSeq(list, 1, Min(hits) - 1) \o SubSeq(list, Min(hits) + 1, Len(list))

\* the scan of one provider's artifacts in ExportedProject.__init__
RECURSIVE ImagesOfArtifacts(_, _)
ImagesOfArtifacts(seq, k) ==
    IF k > Len(seq) THEN <<>>
    ELSE (IF seq[k].kind \in WorkloadKinds THEN get_image_info(seq[k]) ELSE <<>>)
         \o ImagesOfArtifacts(seq, k + 1)

\* the scan of all providers in ExportedProject.__init__
RECURSIVE ImagesOfProviders(_, _)
ImagesOfProviders(arts, p) ==
    IF p > Len(NULECULE_PROVIDERS) THEN <<>>
    ELSE ImagesOfArtifacts(arts[NULECULE_PROVIDERS[p]], 1)
         \o ImagesOfProviders(arts, p + 1)

\* _remove_imagestream_annotations without its test of the kind
RemoveAnnotationsOfAllKinds(arts) ==
    [arts EXCEPT !["openshift"] =
        [k \in 1..Len(@) |->
            IF @[k].hasAnnotations /\ @[k].annotations /= {}
            THEN [@[k] EXCEPT !.hasAnnotations = FALSE, !.annotations = {}]
            ELSE @[k]]]

\* ExportedProject._remove_imagestream_annotations
_remove_imagestream_annotations(arts) ==
    [arts EXCEPT !["openshift"] =
        [k \in 1..Len(@) |->
            IF @[k].kind = "ImageStream"
               /\ @[k].hasAnnotations /\ @[k].annotations /= {}
            THEN [@[k] EXCEPT !.hasAnnotations = FALSE, !.annotations = {}]
            ELSE @[k]]]

\* the loop of _remove_openshift_objects over the snapshot list(...)
RECURSIVE RemoveLoop(_, _, _)
RemoveLoop(snapshot, k, current) ==
    IF k > Len(snapshot) THEN current
    ELSE LET obj == snapshot[k]
         IN  IF obj.kind = "ReplicationController"
                /\ AnnotationGet(obj, DeploymentConfigAnnotation, "") /= ""
             THEN RemoveLoop(snapshot, k + 1, ListRemove(current, obj))
             ELSE RemoveLoop(snapshot, k + 1, current)

\* ExportedProject._remove_openshift_objects
_remove_openshift_objects(arts) ==
    [arts EXCEPT !["openshift"] = RemoveLoop(@, 1, @)]

\* __init__ with the inventory taken after scrubbing and pruning
ExportedProjectScansPruned(arts) ==
    LET pruned == _remove_openshift_objects(_remove_imagestream_annotations(arts))
    IN  [images |-> ImagesOfProviders(pruned, 1), artifacts |-> pruned]

\* ExportedProject.__init__: the inventory of the artifacts passed in, then
\* scrubbing, then pruning
ExportedProject(arts) ==
    [images |-> ImagesOfProviders(arts, 1),
     artifacts |-> _remove_openshift_objects(_remove_imagestream_annotations(arts))]

(***************************************************************************)
(* OpenshiftClient.export_project.                                         *)
(***************************************************************************)
\* the resources export_project asks for, per provider
Resources(provider) ==
    IF provider = "kubernetes"
    THEN <<"persistentVolumeClaim", "service", "replicationController">>
    ELSE <<"imageStream", "service", "persistentVolumeClaim",
           "replicationController", "deploymentConfig", "buildConfig">>

\* one external command, as handed to utils.run_cmd, with the exit code ec
\* that run_cmd hands back
Cmd(name, entry, arg, arg2) ==
    [cmd |-> name, entry |-> entry, arg |-> arg, arg2 |-> arg2,
     ec |-> IF name \in failing THEN 1 ELSE 0]

\* d[key] = value on a dict: the key is added when it is not there yet
DictSet(d, key, value) ==
    [k \in DOMAIN d \cup {key} |-> IF k = key THEN value ELSE d[k]]

\* the loop of export_project, taking the items of an envelope whatever its
\* kind where it should raise
RECURSIVE ExportLoopIgnoresKind(_, _, _, _)
ExportLoopIgnoresKind(envelopes, p, all_artifacts, queries) ==
    IF p > Len(NULECULE_PROVIDERS)
    THEN [raised |-> FALSE, all_artifacts |-> all_artifacts, queries |-> queries]
    ELSE LET provider == NULECULE_PROVIDERS[p]
             objects == envelopes[provider]
             issued == Append(queries,
                              Cmd("export", 0, provider, Resources(provider)))
         IN  ExportLoopIgnoresKind(envelopes, p + 1,
                                   DictSet(all_artifacts, provider, objects.items),
                                   issued)

\* the loop of export_project with the query made once, before the loop,
\* and its result used for every provider
RECURSIVE ExportLoopQueriesOnce(_, _, _, _)
ExportLoopQueriesOnce(envelopes, p, all_artifacts, queries) ==
    IF p > Len(NULECULE_PROVIDERS)
    THEN [raised |-> FALSE, all_artifacts |-> all_artifacts, queries |-> queries]
    ELSE LET provider == NULECULE_PROVIDERS[p]
             objects == envelopes[NULECULE_PROVIDERS[1]]
             issued == IF p = 1
                       THEN Append(queries, Cmd("export", 0, provider,
                                                Resources(provider)))
                       ELSE queries
         IN  IF objects.kind = "List"
             THEN ExportLoopQueriesOnce(envelopes, p + 1,
                             DictSet(all_artifacts, provider, objects.items),
                             issued)
             ELSE [raised |-> TRUE, all_artifacts |-> all_artifacts,
                   queries |-> issued]

\* the loop of export_project over the providers: envelopes[p] is what the
\* query for provider p returns. The result tells whether the loop raised,
\* the all_artifacts dict built so far and the queries issued.
RECURSIVE ExportLoop(_, _, _, _)
ExportLoop(envelopes, p, all_artifacts, queries) ==
    IF p > Len(NULECULE_PROVIDERS)
    THEN [raised |-> FALSE, all_artifacts |-> all_artifacts, queries |-> queries]
    ELSE LET provider == NULECULE_PROVIDERS[p]
             objects == envelopes[provider]
             issued == Append(queries,
                              Cmd("export", 0, provider, Resources(provider)))
         IN  IF objects.kind = "List"
             THEN ExportLoop(envelopes, p + 1,
                             DictSet(all_artifacts, provider, objects.items),
                             issued)
             ELSE [raised |-> TRUE, all_artifacts |-> all_artifacts,
                   queries |-> issued]

\* all_artifacts = {} : a dict without keys
EmptyCollection == [p \in {} |-> <<>>]

\* the state of a caller that holds no ExportedProject
NoProject == [images |-> <<>>, artifacts |-> EmptyCollection]

NoOp == [name |-> "none", registry |-> <<>>, only_internal |-> FALSE, auth |-> FALSE]

\* export_project, for the envelopes the cluster returns
export_project(envelopes) ==
    LET run == ExportLoop(envelopes, 1, EmptyCollection, <<>>)
        ep == IF run.raised THEN NoProject ELSE ExportedProject(run.all_artifacts)
    IN  /\ pc = "start"
        /\ pc' = IF run.raised THEN "failed" ELSE "exported"
        /\ input' = input
        /\ artifacts' = ep.artifacts
        /\ images' = ep.images
        /\ cmds' = run.queries
        /\ op' = [NoOp EXCEPT !.name = "export"]
        /\ hist' = hist
        /\ failing' = failing

(***************************************************************************)
(* ExportedProject.pull_images.                                            *)
(***************************************************************************)
\* docker login, as both pull_images and push_images issue it
Login(registry) == Cmd("login", 0, registry, <<>>)

\* the loop of pull_images, pulling external images whatever only_internal
RECURSIVE PullLoopPullsAll(_, _, _, _, _)
PullLoopPullsAll(imgs, k, registry, only_internal, issued) ==
    IF k > Len(imgs) THEN [images |-> imgs, cmds |-> issued]
    ELSE LET image_info == imgs[k]
             rewritten == [image_info EXCEPT
                              !.image = replace_registry_host(@, registry)]
         IN  IF image_info.internal
             THEN PullLoopPullsAll([imgs EXCEPT ![k] = rewritten], k + 1,
                           registry, only_internal,
                           Append(issued, Cmd("pull", k, rewritten.image, <<>>)))
             ELSE PullLoopPullsAll(imgs, k + 1, registry, only_internal,
                           Append(issued, Cmd("pull", k, image_info.image, <<>>)))

\* the loop of pull_images, pulling the image under the name it had before
\* the rewrite
RECURSIVE PullLoopPullsOldName(_, _, _, _, _)
PullLoopPullsOldName(imgs, k, registry, only_internal, issued) ==
    IF k > Len(imgs) THEN [images |-> imgs, cmds |-> issued]
    ELSE LET image_info == imgs[k]
             rewritten == [image_info EXCEPT
                              !.image = replace_registry_host(@, registry)]
         IN  IF image_info.internal
             THEN PullLoopPullsOldName([imgs EXCEPT ![k] = rewritten], k + 1,
                           registry, only_internal,
                           Append(issued, Cmd("pull", k, image_info.image, <<>>)))
             ELSE IF only_internal
             THEN PullLoopPullsOldName(imgs, k + 1, registry, only_internal,
                                       issued)
             ELSE PullLoopPullsOldName(imgs, k + 1, registry, only_internal,
                           Append(issued, Cmd("pull", k, image_info.image, <<>>)))

\* the loop of pull_images, renaming the original_image of an internal
\* entry along with its image
RECURSIVE PullLoopRenamesOriginal(_, _, _, _, _)
PullLoopRenamesOriginal(imgs, k, registry, only_internal, issued) ==
    IF k > Len(imgs) THEN [images |-> imgs, cmds |-> issued]
    ELSE LET image_info == imgs[k]
             rewritten == [image_info EXCEPT
                              !.image = replace_registry_host(@, registry),
                              !.original_image =
                                  replace_registry_host(@, registry)]
         IN  IF image_info.internal
             THEN PullLoopRenamesOriginal([imgs EXCEPT ![k] = rewritten], k + 1,
                           registry, only_internal,
                           Append(issued, Cmd("pull", k, rewritten.image, <<>>)))
             ELSE IF only_internal
             THEN PullLoopRenamesOriginal(imgs, k + 1, registry, only_internal,
                                          issued)
             ELSE PullLoopRenamesOriginal(imgs, k + 1, registry, only_internal,
                           Append(issued, Cmd("pull", k, image_info.image, <<>>)))

\* the loop of pull_images, given up at the first command that exits
\* non-zero
RECURSIVE PullLoopStopsOnFailure(_, _, _, _, _)
PullLoopStopsOnFailure(imgs, k, registry, only_internal, issued) ==
    IF k > Len(imgs) \/ \E c \in 1..Len(issued) : issued[c].ec /= 0
    THEN [images |-> imgs, cmds |-> issued]
    ELSE LET image_info == imgs[k]
             rewritten == [image_info EXCEPT
                              !.image = replace_registry_host(@, registry)]
         IN  IF image_info.internal
             THEN PullLoopStopsOnFailure([imgs EXCEPT ![k] = rewritten], k + 1,
                           registry, only_internal,
                           Append(issued, Cmd("pull", k, rewritten.image, <<>>)))
             ELSE IF only_internal
             THEN PullLoopStopsOnFailure(imgs, k + 1, registry, only_internal,
                                         issued)
             ELSE PullLoopStopsOnFailure(imgs, k + 1, registry, only_internal,
                           Append(issued, Cmd("pull", k, image_info.image, <<>>)))

\* the loop of pull_images over self.images, from entry k on
RECURSIVE PullLoop(_, _, _, _, _)
PullLoop(imgs, k, registry, only_internal, issued) ==
    IF k > Len(imgs) THEN [images |-> imgs, cmds |-> issued]
    ELSE LET image_info == imgs[k]
             rewritten == [image_info EXCEPT
                              !.image = replace_registry_host(@, registry)]
         IN  IF image_info.internal
             THEN PullLoop([imgs EXCEPT ![k] = rewritten], k + 1, registry,
                           only_internal,
                           Append(issued, Cmd("pull", k, rewritten.image, <<>>)))
             ELSE IF only_internal
             THEN PullLoop(imgs, k + 1, registry, only_internal, issued)
             ELSE PullLoop(imgs, k + 1, registry, only_internal,
                           Append(issued, Cmd("pull", k, image_info.image, <<>>)))

pull_images(registry, only_internal) ==
    LET run == PullLoop(images, 1, registry, only_internal, <<Login(registry)>>)
    IN  /\ pc = "exported"
        /\ Len(hist) < MaxOps
        /\ images' = run.images
        /\ cmds' = run.cmds
        /\ op' = [name |-> "pull", registry |-> registry,
                  only_internal |-> only_internal, auth |-> TRUE]
        /\ hist' = Append(hist, "pull")
        /\ UNCHANGED <<pc, input, artifacts, failing>>

(***************************************************************************)
(* ExportedProject.push_images.                                            *)
(***************************************************************************)
\* "{}".format(x) of an optional string
Format(x) == IF x = None THEN NoneText ELSE x

\* the new name with the tag appended to the whole substituted reference
NewFullNameAppendsTag(image, registry) ==
    LET name_new_registry == replace_registry_host(image, registry)
        parsed == parse_image_name(name_new_registry)
        tag == IF Truthy(parsed[3]) THEN StripChar(parsed[3], ":") ELSE parsed[2]
    IN  name_new_registry \o <<":">> \o Format(tag)

\* the name push_images gives an image for the target registry
NewFullName(image, registry) ==
    LET name_new_registry == replace_registry_host(image, registry)
        parsed == parse_image_name(name_new_registry)
        new_name == parsed[1]
        new_name_tag == parsed[2]
        new_name_digest == parsed[3]
        tag == IF Truthy(new_name_digest)
               THEN StripChar(new_name_digest, ":")
               ELSE new_name_tag
    IN  Format(new_name) \o <<":">> \o Format(tag)

\* the loop of push_images with the test of the internal flag inverted
RECURSIVE PushLoopSkipsInternal(_, _, _, _, _)
PushLoopSkipsInternal(imgs, k, registry, only_internal, issued) ==
    IF k > Len(imgs) THEN [images |-> imgs, cmds |-> issued]
    ELSE LET image_info == imgs[k]
             image == image_info.image
             new_full_name == NewFullName(image, registry)
         IN  IF only_internal /\ image_info.internal
             THEN PushLoopSkipsInternal(imgs, k + 1, registry, only_internal,
                                        issued)
             ELSE PushLoopSkipsInternal([imgs EXCEPT ![k].image = new_full_name],
                           k + 1, registry, only_internal,
                           issued \o <<Cmd("tag", k, image, new_full_name),
                                       Cmd("push", k, new_full_name, <<>>)>>)

\* the loop of push_images, leaving out an entry whose new name an earlier
\* entry already carries
RECURSIVE PushLoopPushesNameOnce(_, _, _, _, _)
PushLoopPushesNameOnce(imgs, k, registry, only_internal, issued) ==
    IF k > Len(imgs) THEN [images |-> imgs, cmds |-> issued]
    ELSE LET image_info == imgs[k]
             image == image_info.image
             new_full_name == NewFullName(image, registry)
         IN  IF \/ only_internal /\ ~image_info.internal
                \/ \E j \in 1..(k - 1) : imgs[j].image = new_full_name
             THEN PushLoopPushesNameOnce(imgs, k + 1, registry, only_internal,
                                         issued)
             ELSE PushLoopPushesNameOnce([imgs EXCEPT ![k].image = new_full_name],
                           k + 1, registry, only_internal,
                           issued \o <<Cmd("tag", k, image, new_full_name),
                                       Cmd("push", k, new_full_name, <<>>)>>)

\* the loop of push_images, naming the entry only once its tag and its
\* push have both exited with zero
RECURSIVE PushLoopRenamesOnSuccess(_, _, _, _, _)
PushLoopRenamesOnSuccess(imgs, k, registry, only_internal, issued) ==
    IF k > Len(imgs) THEN [images |-> imgs, cmds |-> issued]
    ELSE LET image_info == imgs[k]
             image == image_info.image
             new_full_name == NewFullName(image, registry)
             tag == Cmd("tag", k, image, new_full_name)
             push == Cmd("push", k, new_full_name, <<>>)
         IN  IF only_internal /\ ~image_info.internal
             THEN PushLoopRenamesOnSuccess(imgs, k + 1, registry, only_internal,
                                           issued)
             ELSE PushLoopRenamesOnSuccess(
                           IF tag.ec = 0 /\ push.ec = 0
                           THEN [imgs EXCEPT ![k].image = new_full_name]
                           ELSE imgs,
                           k + 1, registry, only_internal,
                           issued \o <<tag, push>>)

\* the loop of push_images over self.images, from entry k on
RECURSIVE PushLoop(_, _, _, _, _)
PushLoop(imgs, k, registry, only_internal, issued) ==
    IF k > Len(imgs) THEN [images |-> imgs, cmds |-> issued]
    ELSE LET image_info == imgs[k]
             image == image_info.image
             new_full_name == NewFullName(image, registry)
         IN  IF only_internal /\ ~image_info.internal
             THEN PushLoop(imgs, k + 1, registry, only_internal, issued)
             ELSE PushLoop([imgs EXCEPT ![k].image = new_full_name], k + 1,
                           registry, only_internal,
                           issued \o <<Cmd("tag", k, image, new_full_name),
                                       Cmd("push", k, new_full_name, <<>>)>>)

\* push_images logging in whatever the credentials
push_imagesAlwaysLogin(registry, auth, only_internal) ==
    LET run == PushLoop(images, 1, registry, only_internal, <<Login(registry)>>)
    IN  /\ pc = "exported"
        /\ Len(hist) < MaxOps
        /\ images' = run.images
        /\ cmds' = run.cmds
        /\ op' = [name |-> "push", registry |-> registry,
                  only_internal |-> only_internal, auth |-> auth]
        /\ hist' = Append(hist, "push")
        /\ UNCHANGED <<pc, input, artifacts, failing>>

\* auth: username and password are both non-empty
push_images(registry, auth, only_internal) ==
    LET run == PushLoop(images, 1, registry, only_internal,
                        IF auth THEN <<Login(registry)>> ELSE <<>>)
    IN  /\ pc = "exported"
        /\ Len(hist) < MaxOps
        /\ images' = run.images
        /\ cmds' = run.cmds
        /\ op' = [name |-> "push", registry |-> registry,
                  only_internal |-> only_internal, auth |-> auth]
        /\ hist' = Append(hist, "push")
        /\ UNCHANGED <<pc, input, artifacts, failing>>

(***************************************************************************)
(* ExportedProject.update_artifacts_images.                                *)
(***************************************************************************)
\* the innermost loop with the assignment outside its test: the image of
\* every entry in turn
RECURSIVE UpdateContainerAssignsAlways(_, _, _)
UpdateContainerAssignsAlways(container, imgs, k) ==
    IF k > Len(imgs) THEN container
    ELSE UpdateContainerAssignsAlways(imgs[k].image, imgs, k + 1)

\* the innermost loop: one container's image against every inventory entry
RECURSIVE UpdateContainer(_, _, _)
UpdateContainer(container, imgs, k) ==
    IF k > Len(imgs) THEN container
    ELSE IF container = imgs[k].original_image
         THEN UpdateContainer(imgs[k].image, imgs, k + 1)
         ELSE UpdateContainer(container, imgs, k + 1)

\* the update of one artifact, leaving replication controllers out
UpdateArtifactDeploymentConfigOnly(artifact, imgs) ==
    IF artifact.kind = "DeploymentConfig"
    THEN [artifact EXCEPT !.containers =
             [c \in 1..Len(@) |-> UpdateContainer(@[c], imgs, 1)]]
    ELSE artifact

\* one artifact: only the workload kinds are touched
UpdateArtifact(artifact, imgs) ==
    IF artifact.kind \in WorkloadKinds
    THEN [artifact EXCEPT !.containers =
             [c \in 1..Len(@) |-> UpdateContainer(@[c], imgs, 1)]]
    ELSE artifact

\* every artifact of every provider
UpdateArtifacts(arts, imgs) ==
    [provider \in Providers |->
        [a \in 1..Len(arts[provider]) |-> UpdateArtifact(arts[provider][a], imgs)]]

\* update_artifacts_images taking each entry's new name as its original
\* from then on
update_artifacts_imagesRebasesInventory ==
    /\ pc = "exported"
    /\ Len(hist) < MaxOps
    /\ artifacts' = UpdateArtifacts(artifacts, images)
    /\ images' = [e \in 1..Len(images) |->
                      [images[e] EXCEPT !.original_image = images[e].image]]
    /\ cmds' = <<>>
    /\ op' = [NoOp EXCEPT !.name = "update"]
    /\ hist' = Append(hist, "update")
    /\ UNCHANGED <<pc, input, failing>>

update_artifacts_images ==
    /\ pc = "exported"
    /\ Len(hist) < MaxOps
    /\ artifacts' = UpdateArtifacts(artifacts, images)
    /\ cmds' = <<>>
    /\ op' = [NoOp EXCEPT !.name = "update"]
    /\ hist' = Append(hist, "update")
    /\ UNCHANGED <<pc, input, images, failing>>

(***************************************************************************)
(* The inputs the model is run on.                                         *)
(***************************************************************************)
Artifact(kind, hasAnnotations, annotations, containers) ==
    [kind |-> kind, hasAnnotations |-> hasAnnotations,
     annotations |-> annotations, containers |-> containers]

\* i/a:1, an image of the internal registry, with a tag
InternalTagged == <<"i", "/", "a", ":", "1">>
\* i/a@s:h, an image of the internal registry, with a digest
InternalDigest == <<"i", "/", "a", "@", "s", ":", "h">>
\* n/a:1, an external image, on the host that is also a target registry
ExternalTagged == <<"n", "/", "a", ":", "1">>
\* o/a, an external image with neither tag nor digest
ExternalBare == <<"o", "/", "a">>

\* the target registries: n, and m:5 (a host with a port)
Registries == {<<"n">>, <<"m", ":", "5">>}

Generated(name) == {<<DeploymentConfigAnnotation, name>>}

\* the artifacts export_project is run on
ExportPool ==
    { Artifact("ImageStream", TRUE, {<<"description", "v">>}, <<>>),
      Artifact("ImageStream", TRUE, {}, <<>>),
      Artifact("Service", FALSE, {}, <<>>),
      Artifact("ReplicationController", FALSE, {}, <<InternalTagged>>),
      Artifact("ReplicationController", TRUE, Generated("frontend"),
               <<InternalDigest>>),
      Artifact("ReplicationController", TRUE, Generated(""), <<ExternalBare>>),
      Artifact("ReplicationController", TRUE, {<<"description", "v">>},
               <<ExternalTagged>>),
      Artifact("DeploymentConfig", FALSE, {}, <<ExternalTagged, InternalTagged>>) }

\* the workloads the image operations are run on
WorkloadPool ==
    { Artifact("DeploymentConfig", FALSE, {}, <<InternalDigest>>),
      Artifact("DeploymentConfig", FALSE, {}, <<ExternalBare>>),
      Artifact("ReplicationController", FALSE, {},
               <<ExternalTagged, InternalTagged>>) }

SeqsUpTo(S, n) == UNION {[1..k -> S] : k \in 0..n}

ListEnvelopes(collection) ==
    [p \in Providers |-> [kind |-> "List", items |-> collection[p]]]

\* the artifacts of the envelopes, as export_project hands them on
InputArtifacts == [p \in Providers |-> input[p].items]

(***************************************************************************)
(* SpecExport: one export_project call on a cluster.                       *)
(***************************************************************************)
\* the cluster answers with at most MaxArtifacts artifacts in all
InitExport ==
    \E k \in SeqsUpTo(ExportPool, MaxArtifacts) :
        \E o \in SeqsUpTo(ExportPool, MaxArtifacts - Len(k)) :
            \E kinds \in [Providers -> {"List", "Pod"}] :
                /\ pc = "start"
                /\ input = [p \in Providers |->
                               [kind |-> kinds[p],
                                items |-> IF p = "kubernetes" THEN k ELSE o]]
                /\ artifacts = NoProject.artifacts
                /\ images = NoProject.images
                /\ op = NoOp
                /\ cmds = <<>>
                /\ hist = <<>>
                /\ failing = {}

ExportProject == export_project(input)

NextExport == ExportProject

SpecExport == InitExport /\ [][NextExport]_vars

(***************************************************************************)
(* Spec: the public operations on a constructed ExportedProject.           *)
(***************************************************************************)
\* a project constructed from at most n workloads of pool in all
Constructed(pool, n) ==
    \E k \in SeqsUpTo(pool, n) :
        \E o \in SeqsUpTo(pool, n - Len(k)) :
            LET collection == [p \in Providers |->
                                  IF p = "kubernetes" THEN k ELSE o]
            IN  /\ pc = "exported"
                /\ input = ListEnvelopes(collection)
                /\ artifacts = ExportedProject(collection).artifacts
                /\ images = ExportedProject(collection).images
                /\ op = [NoOp EXCEPT !.name = "export"]
                /\ cmds = <<>>
                /\ hist = <<>>

\* every docker command succeeds: the exit codes are ignored by the code
\* (SpecDocker lets the commands fail)
Init == Constructed(WorkloadPool, MaxWorkloads) /\ failing = {}

PullImages ==
    \E registry \in Registries, only_internal \in BOOLEAN :
        pull_images(registry, only_internal)

PushImages ==
    \E registry \in Registries, auth \in BOOLEAN, only_internal \in BOOLEAN :
        push_images(registry, auth, only_internal)

UpdateArtifactsImages == update_artifacts_images

Next == PullImages \/ PushImages \/ UpdateArtifactsImages

Spec == Init /\ [][Next]_vars

(***************************************************************************)
(* SpecDocker: the public operations on a constructed ExportedProject,     *)
(* with docker commands that exit non-zero.                                *)
(***************************************************************************)
\* the docker subcommands that fail, the same ones all through a run
FailureModes ==
    { {}, {"login", "tag"}, {"pull", "push"}, {"login", "pull", "tag", "push"} }

\* the workloads the failing commands are run on: an internal image ahead
\* of an external one
DockerPool ==
    { Artifact("DeploymentConfig", FALSE, {}, <<ExternalBare>>),
      Artifact("ReplicationController", FALSE, {},
               <<InternalTagged, ExternalTagged>>) }

InitDocker == Constructed(DockerPool, MaxDockerWorkloads) /\ failing \in FailureModes

DockerPull == Len(hist) < MaxDockerOps /\ PullImages

DockerPush == Len(hist) < MaxDockerOps /\ PushImages

DockerUpdate == Len(hist) < MaxDockerOps /\ UpdateArtifactsImages

NextDocker == DockerPull \/ DockerPush \/ DockerUpdate

SpecDocker == InitDocker /\ [][NextDocker]_vars

(***************************************************************************)
(* Vocabulary of the properties.                                           *)
(***************************************************************************)
\* the container occurrences <<provider index, artifact, container>> of the
\* workload artifacts of a collection
Containers(arts) ==
    UNION {UNION {{<<p, a, c>> :
                      c \in 1..Len(arts[NULECULE_PROVIDERS[p]][a].containers)}
                  : a \in {x \in 1..Len(arts[NULECULE_PROVIDERS[p]]) :
                              arts[NULECULE_PROVIDERS[p]][x].kind \in WorkloadKinds}}
           : p \in 1..Len(NULECULE_PROVIDERS)}

ContainerImage(arts, t) == arts[NULECULE_PROVIDERS[t[1]]][t[2]].containers[t[3]]

\* scan order: provider, then artifact, then container
Before(s, t) ==
    \/ s[1] < t[1]
    \/ s[1] = t[1] /\ s[2] < t[2]
    \/ s[1] = t[1] /\ s[2] = t[2] /\ s[3] < t[3]

Last(s) == s[Len(s)]

\* the call sequences of the pipeline: pull, then push, each at most once
PipelineOrders == {<<>>, <<"pull">>, <<"push">>, <<"pull", "push">>}

\* the pull commands a call issued for inventory entry e
PullsFor(issued, e) ==
    {k \in 1..Len(issued) : issued[k].cmd = "pull" /\ issued[k].entry = e}

(***************************************************************************)
(* C1: after construction, pull_images, push_images and then               *)
(* update_artifacts_images, every container of a workload artifact whose   *)
(* image equalled an inventory entry's original_image before the update    *)
(* holds that entry's final image, whatever the registries and             *)
(* only_internal values were.                                              *)
(***************************************************************************)
C1_UpdateAfterPush ==
    [][hist' = <<"pull", "push", "update">> =>
        \A t \in Containers(artifacts) : \A e \in 1..Len(images) :
            ContainerImage(artifacts, t) = images[e].original_image
                => ContainerImage(artifacts', t) = images'[e].image]_vars

\* an entry was rewritten and two containers hold its final image
C1_Witness ==
    /\ hist = <<"pull", "push", "update">>
    /\ \E e \in 1..Len(images) :
          /\ images[e].image /= images[e].original_image
          /\ Cardinality({t \in Containers(artifacts) :
                             ContainerImage(artifacts, t) = images[e].image}) >= 2

(***************************************************************************)
(* C2: update_artifacts_images is idempotent. As claimed: after any        *)
(* sequence of pull_images and push_images calls and one                   *)
(* update_artifacts_images call, a second call, which writes               *)
(* UpdateArtifacts(artifacts, images), changes no container image.         *)
(***************************************************************************)
C2_IdempotentAfterAnyCalls ==
    (/\ hist /= <<>>
     /\ Last(hist) = "update"
     /\ \A k \in 1..(Len(hist) - 1) : hist[k] \in {"pull", "push"})
        => UpdateArtifacts(artifacts, images) = artifacts

\* C2 as amended: the same when the calls before the update follow the
\* pipeline order, at most one pull_images and then at most one push_images
C2_IdempotentInPipelineOrder ==
    (/\ hist /= <<>>
     /\ Last(hist) = "update"
     /\ SubSeq(hist, 1, Len(hist) - 1) \in PipelineOrders)
        => UpdateArtifacts(artifacts, images) = artifacts

\* the first update rewrote a container, after a pull and a push
C2_Witness ==
    /\ hist = <<"pull", "push", "update">>
    /\ artifacts /= ExportedProject(InputArtifacts).artifacts
    /\ \E e \in 1..Len(images) : images[e].image = images[e].original_image

(***************************************************************************)
(* Vocabulary of the construction properties.                              *)
(***************************************************************************)
HasAnnotation(artifact, key) == \E kv \in artifact.annotations : kv[1] = key

\* a replication controller that carries the deployment-config annotation
IsTaggedController(artifact) ==
    /\ artifact.kind = "ReplicationController"
    /\ HasAnnotation(artifact, DeploymentConfigAnnotation)

\* an artifact as scrubbing may leave it: an image stream without its
\* annotations, anything else as it was
SameButAnnotations(after, before) ==
    IF before.kind = "ImageStream"
    THEN /\ after.kind = before.kind
         /\ after.containers = before.containers
         /\ \/ after = before
            \/ ~after.hasAnnotations /\ after.annotations = {}
    ELSE after = before

\* the position, in scan order, of container occurrence t
ScanPosition(arts, t) ==
    1 + Cardinality({s \in Containers(arts) : Before(s, t)})

(***************************************************************************)
(* C3: after construction the "openshift" sequence holds no replication    *)
(* controller carrying the openshift.io/deployment-config.name annotation, *)
(* every other artifact of the input sequence is still there, once and in  *)
(* its original order, and the "kubernetes" sequence is unchanged.         *)
(***************************************************************************)
C3_PrunedAndOrdered ==
    pc = "exported" =>
        LET kept == SelectSeq(InputArtifacts["openshift"],
                              LAMBDA x : ~IsTaggedController(x))
            now == artifacts["openshift"]
        IN  /\ \A k \in 1..Len(now) : ~IsTaggedController(now[k])
            /\ Len(now) = Len(kept)
            /\ \A k \in 1..Len(now) : SameButAnnotations(now[k], kept[k])
            /\ artifacts["kubernetes"] = InputArtifacts["kubernetes"]

(***************************************************************************)
(* C4: after construction the inventory has one entry per container        *)
(* occurrence of every workload artifact of the collection passed in       *)
(* (those of the controllers that pruning removes included), in            *)
(* provider, artifact, container order; its length is their number.        *)
(***************************************************************************)
C4_InventoryPerContainer ==
    pc = "exported" =>
        /\ Len(images) = Cardinality(Containers(InputArtifacts))
        /\ \A t \in Containers(InputArtifacts) :
              LET entry == images[ScanPosition(InputArtifacts, t)]
              IN  /\ entry.original_image = ContainerImage(InputArtifacts, t)
                  /\ entry.image = ContainerImage(InputArtifacts, t)

\* two containers share an image, both providers have workloads and a
\* controller was pruned after its containers were counted
C4_Witness ==
    /\ pc = "exported"
    /\ Len(artifacts["openshift"]) < Len(InputArtifacts["openshift"])
    /\ Containers(artifacts) /= Containers(InputArtifacts)
    /\ \E t \in Containers(InputArtifacts) : t[1] = 1
    /\ \E j, k \in 1..Len(images) :
          j /= k /\ images[j].original_image = images[k].original_image

(***************************************************************************)
(* C5: after construction every image stream of the "openshift" sequence   *)
(* has no annotations or an empty map, and scrubbing changed nothing else: *)
(* every other artifact there is an artifact of the input, image streams   *)
(* differ from the input's at most by their annotations, and the           *)
(* "kubernetes" sequence is the input's.                                   *)
(***************************************************************************)
C5_ImageStreamsScrubbed ==
    pc = "exported" =>
        LET now == artifacts["openshift"]
            was == InputArtifacts["openshift"]
            streams(seq) == SelectSeq(seq, LAMBDA x : x.kind = "ImageStream")
        IN  /\ \A k \in 1..Len(now) :
                  now[k].kind = "ImageStream"
                      => ~now[k].hasAnnotations \/ now[k].annotations = {}
            /\ \A k \in 1..Len(now) :
                  now[k].kind /= "ImageStream"
                      => \E j \in 1..Len(was) : was[j] = now[k]
            /\ Len(streams(now)) = Len(streams(was))
            /\ \A k \in 1..Len(streams(now)) :
                  SameButAnnotations(streams(now)[k], streams(was)[k])
            /\ artifacts["kubernetes"] = InputArtifacts["kubernetes"]

\* an annotated image stream was scrubbed, an annotated controller beside
\* it and an annotated image stream of "kubernetes" were not
C5_Witness ==
    /\ pc = "exported"
    /\ \E k \in 1..Len(InputArtifacts["openshift"]) :
          /\ InputArtifacts["openshift"][k].kind = "ImageStream"
          /\ InputArtifacts["openshift"][k].annotations /= {}
    /\ \E k \in 1..Len(artifacts["openshift"]) :
          /\ artifacts["openshift"][k].kind = "ReplicationController"
          /\ artifacts["openshift"][k].annotations /= {}
    /\ \E k \in 1..Len(artifacts["kubernetes"]) :
          /\ artifacts["kubernetes"][k].kind = "ImageStream"
          /\ artifacts["kubernetes"][k].annotations /= {}

(***************************************************************************)
(* C8: when the query of any provider returns an envelope whose kind is    *)
(* not "List", export_project fails and returns no project, not even the   *)
(* artifacts of the providers exported before it.                          *)
(***************************************************************************)
C8_NoPartialExport ==
    (pc /= "start" /\ \E p \in Providers : input[p].kind /= "List")
        => /\ pc = "failed"
           /\ artifacts = NoProject.artifacts
           /\ images = NoProject.images

\* the first provider was exported, with artifacts, and the second failed
C8_Witness ==
    /\ pc = "failed"
    /\ input[NULECULE_PROVIDERS[1]].kind = "List"
    /\ Containers(InputArtifacts) /= {}
    /\ Len(input[NULECULE_PROVIDERS[1]].items) > 0
    /\ input[NULECULE_PROVIDERS[2]].kind = "Pod"
    /\ Len(cmds) = 2

(***************************************************************************)
(* C6: pull_images with only_internal = TRUE issues no pull for an entry   *)
(* whose internal flag is false and leaves the image of every such entry   *)
(* as it was before the call.                                              *)
(***************************************************************************)
C6_ExternalLeftAlone ==
    [][(op'.name = "pull" /\ op'.only_internal) =>
        \A e \in 1..Len(images) :
            ~images[e].internal =>
                /\ images'[e].image = images[e].image
                /\ PullsFor(cmds', e) = {}]_vars

\* an only-internal pull ran over an external entry and pulled an internal
\* one
C6_Witness ==
    /\ op.name = "pull"
    /\ op.only_internal
    /\ \E e \in 1..Len(images) : ~images[e].internal /\ PullsFor(cmds, e) = {}
    /\ \E e \in 1..Len(images) : images[e].internal /\ PullsFor(cmds, e) /= {}

(***************************************************************************)
(* C7: for every entry push_images processes, the new image is the         *)
(* host-substituted name, ":" and a tag: the digest of the reference with  *)
(* every ":" removed when it has a digest, its existing tag otherwise.     *)
(***************************************************************************)
C7_PushedNameAndTag ==
    [][op'.name = "push" =>
        \A e \in 1..Len(images) :
            (images[e].internal \/ ~op'.only_internal) =>
                LET reference == parse_image_name(images[e].image)
                    name == parse_image_name(
                        replace_registry_host(images[e].image, op'.registry))[1]
                    tag == IF reference[3] /= None
                           THEN StripChar(reference[3], ":")
                           ELSE reference[2]
                IN  /\ tag /= None
                    /\ images'[e].image = name \o <<":">> \o tag]_vars

(***************************************************************************)
(* C9: push_images is idempotent on the inventory: a second call right     *)
(* after a first, with the same registry and only_internal, leaves every   *)
(* entry's image as the first call left it.                                *)
(***************************************************************************)
C9_PushTwice ==
    [][(/\ op.name = "push"
        /\ op'.name = "push"
        /\ op'.registry = op.registry
        /\ op'.only_internal = op.only_internal) => images' = images]_vars

\* two pushes in a row, the second of which retagged an internal and an
\* external entry, one of them from a digest, to the name each already had
C9_Witness ==
    /\ hist = <<"push", "push">>
    /\ ~op.only_internal
    /\ \E j, k \in 1..Len(cmds) :
          /\ cmds[j].cmd = "tag" /\ cmds[j].arg = cmds[j].arg2
          /\ images[cmds[j].entry].internal
          /\ parse_image_name(images[cmds[j].entry].original_image)[3] /= None
          /\ cmds[k].cmd = "tag" /\ cmds[k].arg = cmds[k].arg2
          /\ ~images[cmds[k].entry].internal
          /\ images[cmds[k].entry].image /= images[cmds[k].entry].original_image

(***************************************************************************)
(* C10: pull_images rewrites the image of every internal entry to the      *)
(* host substitution of its current image with the target registry,        *)
(* whatever only_internal is, and the pull it issues for the entry names   *)
(* the rewritten reference.                                                *)
(***************************************************************************)
C10_PullRewritesInternal ==
    [][op'.name = "pull" =>
        \A e \in 1..Len(images) :
            images[e].internal =>
                /\ images'[e].image =
                       replace_registry_host(images[e].image, op'.registry)
                /\ PullsFor(cmds', e) /= {}
                /\ \A k \in PullsFor(cmds', e) :
                       cmds'[k].arg = images'[e].image]_vars

\* a pull that was not limited to internal images rewrote an internal entry
\* and pulled it under its new name
C10_Witness ==
    /\ op.name = "pull"
    /\ ~op.only_internal
    /\ \E e \in 1..Len(images) :
          /\ images[e].internal
          /\ images[e].image /= images[e].original_image
          /\ SubSeq(images[e].image, 1, Len(op.registry)) = op.registry
          /\ \E k \in PullsFor(cmds, e) : cmds[k].arg = images[e].image

(***************************************************************************)
(* Vocabulary of the export properties.                                    *)
(***************************************************************************)
\* every provider's query returned a "List" envelope
AllLists == \A p \in Providers : input[p].kind = "List"

\* one query per provider, in the order of the providers
OneQueryPerProvider ==
    /\ Len(cmds) = Len(NULECULE_PROVIDERS)
    /\ \A p \in 1..Len(cmds) :
          cmds[p] = Cmd("export", 0, NULECULE_PROVIDERS[p],
                        Resources(NULECULE_PROVIDERS[p]))

\* a replication controller whose deployment-config annotation names
\* something
IsGeneratedController(artifact) ==
    /\ artifact.kind = "ReplicationController"
    /\ \E kv \in artifact.annotations :
          kv[1] = DeploymentConfigAnnotation /\ kv[2] /= ""

\* an artifact as export_project returns it: an image stream loses its
\* annotations map unless the map is empty
Scrubbed(artifact) ==
    IF artifact.kind = "ImageStream" /\ artifact.annotations /= {}
    THEN [artifact EXCEPT !.hasAnnotations = FALSE, !.annotations = {}]
    ELSE artifact

C12_SameOriginalSameImage ==
    \A j, k \in 1..Len(images) :
        images[j].original_image = images[k].original_image
            => images[j].image = images[k].image

\* two entries of one original image, rewritten by a pull and by a push
C12_Witness ==
    /\ \E j, k \in 1..Len(images) :
          /\ j < k
          /\ images[j].original_image = images[k].original_image
          /\ images[j].image /= images[j].original_image
          /\ images[k].image /= images[k].original_image
    /\ \E a, b \in 1..Len(hist) : hist[a] = "pull" /\ hist[b] = "push"

(***************************************************************************)
(* Vocabulary of the inventory properties.                                 *)
(***************************************************************************)
\* the inventory as construction left it
ConstructedImages == ExportedProject(InputArtifacts).images

\* the artifacts as construction left them
ConstructedArtifacts == ExportedProject(InputArtifacts).artifacts

(***************************************************************************)
(* C13: after construction, whatever pull_images, push_images and          *)
(* update_artifacts_images calls are made, the inventory has the entries   *)
(* it was constructed with, in the same number and order, each with its    *)
(* original_image and its internal flag: at most the image field of an     *)
(* entry differs.                                                          *)
(***************************************************************************)
C13_OnlyImageWritten ==
    pc = "exported" =>
        /\ Len(images) = Len(ConstructedImages)
        /\ \A e \in 1..Len(images) :
              /\ images[e].original_image = ConstructedImages[e].original_image
              /\ images[e].internal = ConstructedImages[e].internal
              /\ [images[e] EXCEPT !.image = ConstructedImages[e].image]
                     = ConstructedImages[e]

\* a pull, a push and an update were made on an inventory of different
\* entries, internal and external, and the image of an entry was written
C13_Witness ==
    /\ \E a, b, c \in 1..Len(hist) :
          hist[a] = "pull" /\ hist[b] = "push" /\ hist[c] = "update"
    /\ \E j, k \in 1..Len(images) :
          /\ images[j].internal /\ ~images[k].internal
          /\ images[j].image /= images[j].original_image
          /\ images[k].image /= images[k].original_image

(***************************************************************************)
(* C14: pull_images and push_images leave the whole artifact collection    *)
(* as it was; update_artifacts_images leaves the inventory as it was and   *)
(* changes nothing of the collection except the image strings of the       *)
(* containers of ReplicationController and DeploymentConfig artifacts.     *)
(***************************************************************************)
C14_Frames ==
    [][/\ op'.name \in {"pull", "push"} => artifacts' = artifacts
       /\ op'.name = "update" =>
             /\ images' = images
             /\ DOMAIN artifacts' = DOMAIN artifacts
             /\ \A p \in DOMAIN artifacts :
                   /\ Len(artifacts'[p]) = Len(artifacts[p])
                   /\ \A a \in 1..Len(artifacts[p]) :
                         LET before == artifacts[p][a]
                             after == artifacts'[p][a]
                         IN  /\ [after EXCEPT !.containers = before.containers]
                                    = before
                             /\ Len(after.containers) = Len(before.containers)
                             /\ before.kind \notin WorkloadKinds
                                    => after = before]_vars

\* an update wrote a pulled name into the artifacts, and the push after it
\* renamed inventory entries and left the artifacts with what the update
\* wrote
C14_Witness ==
    /\ hist = <<"pull", "update", "push">>
    /\ artifacts /= ConstructedArtifacts
    /\ \E t \in Containers(artifacts) :
          \A e \in 1..Len(images) : ContainerImage(artifacts, t) /= images[e].image
    /\ \E e \in 1..Len(images) : images[e].image /= images[e].original_image

(***************************************************************************)
(* C15: as long as neither pull_images nor push_images has been called on  *)
(* a constructed project, every inventory entry has image equal to         *)
(* original_image and update_artifacts_images changes no container image   *)
(* string: the artifacts stay as construction left them.                   *)
(***************************************************************************)
C15_UpdateOfFreshIsNoOp ==
    (pc = "exported" /\ \A h \in 1..Len(hist) : hist[h] = "update")
        => /\ \A e \in 1..Len(images) : images[e].image = images[e].original_image
           /\ artifacts = ConstructedArtifacts

\* the first call on a project with two different images, one of them in
\* two containers, was an update
C15_Witness ==
    /\ hist = <<"update">>
    /\ op.name = "update"
    /\ \E j, k \in 1..Len(images) : images[j].image /= images[k].image
    /\ \E s, t \in Containers(artifacts) :
          s /= t /\ ContainerImage(artifacts, s) = ContainerImage(artifacts, t)

(***************************************************************************)
(* Vocabulary of the command properties.                                   *)
(***************************************************************************)
\* the entries a push with this only_internal does not skip
Pushed(imgs, only_internal) ==
    {e \in 1..Len(imgs) : imgs[e].internal \/ ~only_internal}

\* the entries a pull with this only_internal pulls
Pulled(imgs, only_internal) ==
    {e \in 1..Len(imgs) : imgs[e].internal \/ ~only_internal}

\* the place of e among the entries of S, in inventory order
Rank(S, e) == Cardinality({x \in S : x <= e})

(***************************************************************************)
(* C16: push_images issues one login, as its first command, when username  *)
(* and password are both non-empty, and no login otherwise; after it, in   *)
(* inventory order, every entry that is not skipped gives a forced tag of  *)
(* its previous image to its new full name and, right after it, a push of  *)
(* the new full name; a skipped entry (only_internal and not internal)     *)
(* gives no command and keeps its image.                                   *)
(***************************************************************************)
C16_PushCommands ==
    [][op'.name = "push" =>
        LET off == IF op'.auth THEN 1 ELSE 0
            done == Pushed(images, op'.only_internal)
        IN  /\ Len(cmds') = off + 2 * Cardinality(done)
            /\ op'.auth => cmds'[1] = Cmd("login", 0, op'.registry, <<>>)
            /\ \A c \in 1..Len(cmds') :
                  cmds'[c].cmd = "login" => c = 1 /\ op'.auth
            /\ \A e \in done :
                  LET new_full_name == NewFullName(images[e].image, op'.registry)
                      at == off + 2 * Rank(done, e)
                  IN  /\ cmds'[at - 1] =
                             Cmd("tag", e, images[e].image, new_full_name)
                      /\ cmds'[at] = Cmd("push", e, new_full_name, <<>>)
            /\ \A e \in 1..Len(images) \ done : images'[e] = images[e]]_vars

\* a push with credentials processed an internal entry and skipped the
\* external entry after it; its commands failed, and another push had been
\* made before
C16_Witness ==
    /\ hist = <<"push", "push">>
    /\ op.auth /\ op.only_internal
    /\ Len(cmds) = 3
    /\ cmds[1].cmd = "login" /\ cmds[1].ec /= 0
    /\ \E j, k \in 1..Len(images) :
          /\ j < k
          /\ images[j].internal /\ ~images[k].internal
          /\ cmds[2].entry = j /\ cmds[3].entry = j
          /\ cmds[2].arg2 = images[j].image
          /\ images[k].image /= images[j].image

(***************************************************************************)
(* C17: pull_images issues exactly one login, as its first command, and    *)
(* then exactly one pull per eligible entry (internal, or any entry when   *)
(* only_internal is false) in inventory order, of the entry's image as the *)
(* call leaves it; this is so whether the login or any pull exits with     *)
(* zero or not.                                                            *)
(***************************************************************************)
C17_PullCommands ==
    [][op'.name = "pull" =>
        LET done == Pulled(images, op'.only_internal)
        IN  /\ Len(cmds') = 1 + Cardinality(done)
            /\ cmds'[1].cmd = "login" /\ cmds'[1].arg = op'.registry
            /\ \A c \in 2..Len(cmds') : cmds'[c].cmd = "pull"
            /\ \A e \in done :
                  LET pull == cmds'[1 + Rank(done, e)]
                  IN  pull.entry = e /\ pull.arg = images'[e].image
            /\ \A c \in 1..Len(cmds') :
                  cmds'[c].ec = IF cmds'[c].cmd \in failing THEN 1 ELSE 0]_vars

\* the login failed, the pull of the first entry failed, and the entry
\* after it was pulled all the same
C17_Witness ==
    /\ op.name = "pull"
    /\ ~op.only_internal
    /\ Len(cmds) = 3
    /\ cmds[1].cmd = "login" /\ cmds[1].ec /= 0
    /\ cmds[2].cmd = "pull" /\ cmds[2].ec /= 0 /\ cmds[2].entry = 1
    /\ cmds[3].cmd = "pull" /\ cmds[3].ec /= 0 /\ cmds[3].entry = 2
    /\ images[1].image /= images[1].original_image

\* no entry has the image of entry e as its original_image and another
\* image of its own
JoinsOnce(imgs, e) ==
    \A x \in 1..Len(imgs) :
        imgs[x].original_image = imgs[e].image => imgs[x].image = imgs[e].image

====
